---- MODULE Spec2Model ----
(***************************************************************************)
(* NucloGem (src/code.py): one run of the script                           *)
(*   verify_setup -> run_nuclei_scan -> generate_report_from_file ->       *)
(*   "Error" check -> save_report_to_pdf.                                  *)
(* The three external collaborators (nuclei, the Gemini model, pandoc) and *)
(* the file system answer nondeterministically.  Texts are sequences of    *)
(* one-character strings, so that substring tests, strip() and f-string    *)
(* concatenation are computed as Python computes them.                     *)
(***************************************************************************)
EXTENDS Integers, Sequences, FiniteSets, TLC

VARIABLES
    pc,          \* position of the script
    exitCode,    \* process exit status, -1 while the process is alive
    target,      \* args.target
    faultScript, \* how the model service answers successive calls before it succeeds
    output_file, \* run_nuclei_scan: path of the scan output, <<>> before the scan
    scanFile,    \* the file at output_file
    mdFile,      \* REPORT_PATH + ".md"
    pdfFile,     \* REPORT_PATH + ".pdf"
    content,     \* text read from the scan file
    sentData,    \* scan data embedded in the prompts sent to the model
    report_md,   \* value returned by generate_report_from_file
    out,         \* what the process printed (stdout and the interpreter's traceback)
    stages,      \* history: the stages started, in order
    result,      \* history: outcome of each stage
    calls,       \* history: number of invocations of each external collaborator
    saveCalls,   \* history: number of calls of save_report_to_pdf
    writes       \* history: number of times each report file was written in full

vars == <<pc, exitCode, target, faultScript, output_file, scanFile, mdFile, pdfFile, content,
          sentData, report_md, out, stages, result, calls, saveCalls, writes>>

----------------------------------------------------------------------------
(* Bounds *)

\* longest run of transient failures the model service is scripted with
MaxTransient == 3

----------------------------------------------------------------------------
(* Texts *)

\* A text is a sequence of characters.  A character is written as itself, or as
\* its code point ("U+000B") when it cannot be written in a string here.

\* the characters str.strip() removes: those for which str.isspace() holds
Space ==
    { " ", "\t", "\n", "\r", "\f",
      "U+0009", "U+000A", "U+000B", "U+000C", "U+000D",
      "U+001C", "U+001D", "U+001E", "U+001F", "U+0020", "U+0085", "U+00A0",
      "U+1680", "U+2000", "U+2001", "U+2002", "U+2003", "U+2004", "U+2005",
      "U+2006", "U+2007", "U+2008", "U+2009", "U+200A", "U+2028", "U+2029",
      "U+202F", "U+205F", "U+3000" }

ErrorWord == <<"E","r","r","o","r">>

\* f"Error reading file: {e}"
ErrReadingFile(e) ==
    ErrorWord \o <<" ","r","e","a","d","i","n","g"," ","f","i","l","e",":"," ">> \o e

\* f"Error communicating with Gemini: {e}"
ErrGemini(e) ==
    ErrorWord \o <<" ","c","o","m","m","u","n","i","c","a","t","i","n","g"," ",
                   "w","i","t","h"," ","G","e","m","i","n","i",":"," ">> \o e

\* Python: sub in s
Contains(sub, s) ==
    \E i \in 1..(Len(s) - Len(sub) + 1) : SubSeq(s, i, i + Len(sub) - 1) = sub

\* Python: s.startswith(p)
StartsWith(s, p) == Len(s) >= Len(p) /\ SubSeq(s, 1, Len(p)) = p

RECURSIVE LStrip(_)
LStrip(s) == IF s # <<>> /\ Head(s) \in Space THEN LStrip(Tail(s)) ELSE s

RECURSIVE RStrip(_)
RStrip(s) ==
    IF s # <<>> /\ s[Len(s)] \in Space THEN RStrip(SubSeq(s, 1, Len(s) - 1)) ELSE s

\* Python: s.strip()
Strip(s) == RStrip(LStrip(s))

----------------------------------------------------------------------------
(* Files and optional values *)

Absent == [exists |-> FALSE, data |-> <<>>]
File(d) == [exists |-> TRUE, data |-> d]

\* a report left by an earlier run
StaleText == <<"o","l","d">>

----------------------------------------------------------------------------
(* Inputs *)

Targets ==
    { <<"h","t","t","p",":","/","/","a">>,
      <<"h","t","t","p","s",":","/","/","a">>,
      <<"f","t","p",":","/","/","a">>,
      <<"a">> }

\* datetime.now().strftime("%Y%m%d_%H%M%S")
Timestamps == { <<"2","0","2","6","1","0","3","0","_","0","0","3","7","4","0">>,
                <<"2","0","2","7","0","1","0","1","_","1","2","0","0","0","0">> }

\* os.path.join(OUTPUT_DIR, f"scan_{timestamp}.json")
OutputFile(timestamp) ==
    <<"n","u","c","l","e","i","_","s","c","a","n","s","/","s","c","a","n","_">> \o timestamp \o <<".","j","s","o","n">>

\* A file holds bytes.  A byte below 0x80 is written as the character it
\* encodes, a byte from 0x80 on as Python names it ("0xc3").

\* the characters of the code points 0 .. 127
Ascii ==
    << "U+0000", "U+0001", "U+0002", "U+0003", "U+0004", "U+0005", "U+0006", "U+0007", "U+0008", "\t", "\n", "U+000B",
      "\f", "\r", "U+000E", "U+000F", "U+0010", "U+0011", "U+0012", "U+0013", "U+0014", "U+0015", "U+0016", "U+0017",
      "U+0018", "U+0019", "U+001A", "U+001B", "U+001C", "U+001D", "U+001E", "U+001F", " ", "!", "\"", "#",
      "$", "%", "&", "'", "(", ")", "*", "+", ",", "-", ".", "/",
      "0", "1", "2", "3", "4", "5", "6", "7", "8", "9", ":", ";",
      "<", "=", ">", "?", "@", "A", "B", "C", "D", "E", "F", "G",
      "H", "I", "J", "K", "L", "M", "N", "O", "P", "Q", "R", "S",
      "T", "U", "V", "W", "X", "Y", "Z", "[", "\\", "]", "^", "_",
      "U+0060", "a", "b", "c", "d", "e", "f", "g", "h", "i", "j", "k",
      "l", "m", "n", "o", "p", "q", "r", "s", "t", "u", "v", "w",
      "x", "y", "z", "{", "|", "}", "~", "U+007F" >>

\* the bytes 0x80 .. 0xff
HighBytes ==
    << "0x80", "0x81", "0x82", "0x83", "0x84", "0x85", "0x86", "0x87",
      "0x88", "0x89", "0x8a", "0x8b", "0x8c", "0x8d", "0x8e", "0x8f",
      "0x90", "0x91", "0x92", "0x93", "0x94", "0x95", "0x96", "0x97",
      "0x98", "0x99", "0x9a", "0x9b", "0x9c", "0x9d", "0x9e", "0x9f",
      "0xa0", "0xa1", "0xa2", "0xa3", "0xa4", "0xa5", "0xa6", "0xa7",
      "0xa8", "0xa9", "0xaa", "0xab", "0xac", "0xad", "0xae", "0xaf",
      "0xb0", "0xb1", "0xb2", "0xb3", "0xb4", "0xb5", "0xb6", "0xb7",
      "0xb8", "0xb9", "0xba", "0xbb", "0xbc", "0xbd", "0xbe", "0xbf",
      "0xc0", "0xc1", "0xc2", "0xc3", "0xc4", "0xc5", "0xc6", "0xc7",
      "0xc8", "0xc9", "0xca", "0xcb", "0xcc", "0xcd", "0xce", "0xcf",
      "0xd0", "0xd1", "0xd2", "0xd3", "0xd4", "0xd5", "0xd6", "0xd7",
      "0xd8", "0xd9", "0xda", "0xdb", "0xdc", "0xdd", "0xde", "0xdf",
      "0xe0", "0xe1", "0xe2", "0xe3", "0xe4", "0xe5", "0xe6", "0xe7",
      "0xe8", "0xe9", "0xea", "0xeb", "0xec", "0xed", "0xee", "0xef",
      "0xf0", "0xf1", "0xf2", "0xf3", "0xf4", "0xf5", "0xf6", "0xf7",
      "0xf8", "0xf9", "0xfa", "0xfb", "0xfc", "0xfd", "0xfe", "0xff" >>

\* what nuclei may have written to the -o file when it exits 0
ScanContents ==
    { <<>>,
      <<"{","h","i","g","h","}","\n">>,
      <<"{","\r","\n","}","\r">>,
      <<"0xc3","0xa9","0xe2","0x82","0xac">>,
      <<"0xff","0xfe","{","h","i","g","h","}","\n">>,
      <<"{","0xfe","}">>,
      <<"0x80">>,
      <<"a","0xc3">>,
      <<"0xc3","0xff">>,
      <<"a","0xe2","0x82">>,
      <<"0xed","0xa0","0x80">> }

\* response.text of a successful model call
ReplyTexts ==
    { <<"#"," ","o","k">>,
      <<"\n","#"," ","o","k"," ","\n">>,
      <<"N","o"," ","E","r","r","o","r","s">>,
      <<"e","r","r","o","r">>,
      <<"\t","#"," ","o","k","\r","\n">>,
      <<"U+000B","U+000C","#"," ","o","k","U+00A0">>,
      <<"\t","\r">>,
      <<>> }

\* str(e) of the ValueError response.text raises for a reply without text
ValueErrorTexts == { <<>>, <<"I","n","v","a","l","i","d"," ","o","p","e","r","a","t","i","o","n">> }

\* what generate_content returns: a reply with text, one whose .text raises, or
\* one whose .text is None
Replies ==
    { [kind |-> "text", text |-> t] : t \in ReplyTexts }
        \cup { [kind |-> "raises", text |-> m] : m \in ValueErrorTexts }
        \cup { [kind |-> "none", text |-> <<>>] }

Digits == <<"0","1","2","3","4","5","6","7","8","9">>

\* Python: str(n), n >= 0
RECURSIVE Decimal(_)
Decimal(n) ==
    IF n < 10 THEN <<Digits[n + 1]>> ELSE Decimal(n \div 10) \o <<Digits[(n % 10) + 1]>>

\* str(e) of the FileNotFoundError open(path) raises
NoSuchFileText(path) ==
    <<"[","E","r","r","n","o"," ","2","]"," ","N","o"," ","s","u","c","h"," ","f","i","l","e"," ","o","r"," ","d","i","r","e","c","t","o","r","y",":"," ","'">> \o path \o <<"'">>

\* the value of a byte
ByteValue(b) ==
    IF \E i \in 1..Len(HighBytes) : HighBytes[i] = b
      THEN 127 + (CHOOSE i \in 1..Len(HighBytes) : HighBytes[i] = b)
      ELSE (CHOOSE i \in 1..Len(Ascii) : Ascii[i] = b) - 1

HexLower == <<"0","1","2","3","4","5","6","7","8","9","a","b","c","d","e","f">>
HexUpper == <<"0","1","2","3","4","5","6","7","8","9","A","B","C","D","E","F">>

\* "%X" % n
RECURSIVE UpperHex(_)
UpperHex(n) ==
    IF n < 16 THEN HexUpper[n + 1] ELSE UpperHex(n \div 16) \o HexUpper[(n % 16) + 1]

\* the character of a code point
Chr(cp) ==
    IF cp < 128 THEN Ascii[cp + 1]
    ELSE IF cp < 256 THEN "U+00" \o UpperHex(cp)
    ELSE IF cp < 4096 THEN "U+0" \o UpperHex(cp)
    ELSE "U+" \o UpperHex(cp)

\* a continuation byte, 0x80 .. 0xbf
IsContinuation(v) == v >= 128 /\ v <= 191

\* The UTF-8 decoder at byte i of data (from 1).  kind is "char" (a character of
\* len bytes), "end" (the data end inside a sequence), "start" (invalid start
\* byte) or "continuation" (invalid continuation byte; len is the number of
\* bytes of the sequence before the invalid one).
DecodeAt(data, i) ==
    LET n  == Len(data) - i + 1
        v  == ByteValue(data[i])
        v2 == IF n >= 2 THEN ByteValue(data[i + 1]) ELSE 0
        v3 == IF n >= 3 THEN ByteValue(data[i + 2]) ELSE 0
        v4 == IF n >= 4 THEN ByteValue(data[i + 3]) ELSE 0
        Char(len, cp) == [kind |-> "char", len |-> len, cp |-> cp]
        Stop(kind, len) == [kind |-> kind, len |-> len, cp |-> 0]
    IN
    IF v < 128 THEN Char(1, v)
    ELSE IF v < 194 THEN Stop("start", 1)
    ELSE IF v < 224 THEN
        IF n < 2 THEN Stop("end", n)
        ELSE IF ~IsContinuation(v2) THEN Stop("continuation", 1)
        ELSE Char(2, (v - 192) * 64 + (v2 - 128))
    ELSE IF v < 240 THEN
        IF n < 2 THEN Stop("end", n)
        ELSE IF ~IsContinuation(v2) \/ (IF v2 < 160 THEN v = 224 ELSE v = 237)
          THEN Stop("continuation", 1)
        ELSE IF n < 3 THEN Stop("end", n)
        ELSE IF ~IsContinuation(v3) THEN Stop("continuation", 2)
        ELSE Char(3, (v - 224) * 4096 + (v2 - 128) * 64 + (v3 - 128))
    ELSE IF v < 245 THEN
        IF n < 2 THEN Stop("end", n)
        ELSE IF ~IsContinuation(v2) \/ (IF v2 < 144 THEN v = 240 ELSE v = 244)
          THEN Stop("continuation", 1)
        ELSE IF n < 3 THEN Stop("end", n)
        ELSE IF ~IsContinuation(v3) THEN Stop("continuation", 2)
        ELSE IF n < 4 THEN Stop("end", n)
        ELSE IF ~IsContinuation(v4) THEN Stop("continuation", 3)
        ELSE Char(4, (v - 240) * 262144 + (v2 - 128) * 4096 + (v3 - 128) * 64 + (v4 - 128))
    ELSE Stop("start", 1)

\* str(e) of the UnicodeDecodeError for the bytes start .. start + len - 1 (from 0)
DecodeErrorText(data, start, len, kind) ==
    <<"'","u","t","f","-","8","'"," ","c","o","d","e","c"," ","c","a","n","'","t"," ","d","e","c","o","d","e"," ">>
        \o (IF len = 1
              THEN <<"b","y","t","e"," ","0","x">>
                     \o <<HexLower[(ByteValue(data[start + 1]) \div 16) + 1],
                          HexLower[(ByteValue(data[start + 1]) % 16) + 1]>>
                     \o <<" ","i","n"," ","p","o","s","i","t","i","o","n"," ">> \o Decimal(start)
              ELSE <<"b","y","t","e","s"," ","i","n"," ","p","o","s","i","t","i","o","n"," ">>
                     \o Decimal(start) \o <<"-">> \o Decimal(start + len - 1))
        \o <<":", " ">>
        \o (CASE kind = "end"   -> <<"u","n","e","x","p","e","c","t","e","d"," ","e","n","d"," ","o","f"," ","d","a","t","a">>
              [] kind = "start" -> <<"i","n","v","a","l","i","d"," ","s","t","a","r","t"," ","b","y","t","e">>
              [] OTHER          -> <<"i","n","v","a","l","i","d"," ","c","o","n","t","i","n","u","a","t","i","o","n"," ","b","y","t","e">>)

\* bytes.decode("utf-8") of data from byte i on, after the characters acc: the
\* text, or str(e) of the UnicodeDecodeError
RECURSIVE Decode(_, _, _)
Decode(data, i, acc) ==
    IF i > Len(data) THEN [ok |-> TRUE, text |-> acc]
    ELSE LET d == DecodeAt(data, i) IN
         IF d.kind = "char" THEN Decode(data, i + d.len, Append(acc, Chr(d.cp)))
         ELSE [ok |-> FALSE, text |-> DecodeErrorText(data, i - 1, d.len, d.kind)]

\* text mode, newline=None: "\r\n" and "\r" are read as "\n"
RECURSIVE UniversalNewlines(_)
UniversalNewlines(text) ==
    IF text = <<>> THEN <<>>
    ELSE IF Head(text) = "\r"
      THEN IF Len(text) >= 2 /\ text[2] = "\n"
             THEN UniversalNewlines(Tail(text))
             ELSE <<"\n">> \o UniversalNewlines(Tail(text))
    ELSE <<Head(text)>> \o UniversalNewlines(Tail(text))

\* str(e) of the AttributeError of None.strip()
NoStripText == <<"'","N","o","n","e","T","y","p","e","'"," ","o","b","j","e","c","t"," ","h","a","s"," ","n","o"," ","a","t","t","r","i","b","u","t","e"," ","'","s","t","r","i","p","'">>

\* str(e) of the exceptions generate_content raises
FaultText(kind) ==
    CASE kind = "transient" -> <<"4","2","9">>
      [] kind = "auth"      -> <<"4","0","3">>
      [] OTHER              -> <<>>

\* the service fails transiently k times and then succeeds, or fails for good
FaultScripts ==
    { [i \in 1..k |-> "transient"] : k \in 0..MaxTransient }
        \cup { <<"auth">>, <<"invalid">> }

StageOrder == <<"setup", "scan", "read", "model", "write", "render">>
StageSet == { StageOrder[i] : i \in 1..Len(StageOrder) }
Collaborators == {"version", "scan", "model", "pandoc"}

----------------------------------------------------------------------------
(* Effects shared by the actions *)

\* exit(code), or normal end of the script
Exit(code) == pc' = "done" /\ exitCode' = code

\* an exception nobody catches: the interpreter prints a traceback, status 1
Crash == pc' = "done" /\ exitCode' = 1

\* the process waits in a call that has no timeout
Block == pc' = "blocked" /\ exitCode' = exitCode

Start(stage, outcome) ==
    /\ stages' = Append(stages, stage)
    /\ result' = [result EXCEPT ![stage] = outcome]

Invoke(c) == calls' = [calls EXCEPT ![c] = @ + 1]

Succeeded(stage) == result[stage] = "ok"

Emit(msgs) == out' = out \o msgs
Say(tag) == [msg |-> tag, text |-> <<>>]
Traceback == Say("traceback")

\* exit status of a way to end: the script's end, exit(1), an uncaught exception
ExitStatusOf(how) == IF how = "exit0" THEN 0 ELSE 1

\* how the script goes on after a step: "continue", "exit0", "exit1", "crash", "block"
Proceed(how, nextpc) ==
    CASE how = "continue" -> pc' = nextpc /\ exitCode' = exitCode
      [] how = "exit0"    -> Exit(ExitStatusOf(how))
      [] how = "exit1"    -> Exit(ExitStatusOf(how))
      [] how = "crash"    -> Crash
      [] OTHER            -> Block

----------------------------------------------------------------------------
(* verify_setup *)

VersionOutcomes == {"ok", "nonzero", "oserror", "hang"}

\* the first check of verify_setup that stops it, "ok" when none does
SetupVerdict(version, templates, mkdir) ==
    IF version = "hang" THEN "hang"
    ELSE IF version # "ok" THEN "version_failed"    \* bare except: any exception
    ELSE IF ~templates THEN "no_templates"
    ELSE IF ~mkdir THEN "mkdir_failed"              \* os.makedirs raises, uncaught
    ELSE "ok"

\* slip: the templates message is printed but the exit(1) after it is missing
SetupDispositionNoExit(verdict) ==
    CASE verdict = "ok"             -> "continue"
      [] verdict = "version_failed" -> "exit1"
      [] verdict = "no_templates"   -> "continue"
      [] verdict = "mkdir_failed"   -> "crash"
      [] OTHER                      -> "block"

SetupDisposition(verdict) ==
    CASE verdict = "ok"             -> "continue"
      [] verdict = "version_failed" -> "exit1"
      [] verdict = "no_templates"   -> "exit1"
      [] verdict = "mkdir_failed"   -> "crash"
      [] OTHER                      -> "block"

SetupMessages(verdict) ==
    <<Say("verifying")>> \o
    CASE verdict = "ok"             -> <<Say("setup_verified")>>
      [] verdict = "version_failed" -> <<Say("nuclei_not_found"), Say("install_hint")>>
      [] verdict = "no_templates"   -> <<Say("templates_not_found"), Say("update_hint")>>
      [] verdict = "mkdir_failed"   -> <<Traceback>>
      [] OTHER                      -> <<>>

VerifySetup ==
    /\ pc = "verify_setup"
    /\ \E version \in VersionOutcomes, templates \in BOOLEAN, mkdir \in BOOLEAN :
          LET verdict == SetupVerdict(version, templates, mkdir) IN
          /\ Start("setup", verdict)
          /\ Invoke("version")
          /\ Emit(SetupMessages(verdict))
          /\ Proceed(SetupDisposition(verdict), "run_nuclei_scan")
    /\ UNCHANGED <<target, faultScript, output_file, scanFile, mdFile, pdfFile, content, sentData,
                   report_md, saveCalls, writes>>

----------------------------------------------------------------------------
(* run_nuclei_scan *)

ProcessOutcomes == {"ok", "nonzero", "oserror", "hang"}

\* slip: check=True dropped, a failed scan goes on to the report
ScanDispositionLenient(outcome) ==
    CASE outcome = "ok"      -> "continue"
      [] outcome = "nonzero" -> "continue"
      [] outcome = "oserror" -> "crash"
      [] OTHER               -> "block"

\* subprocess.run(check=True): only CalledProcessError is caught
ScanDisposition(outcome) ==
    CASE outcome = "ok"      -> "continue"
      [] outcome = "nonzero" -> "exit1"
      [] outcome = "oserror" -> "crash"
      [] OTHER               -> "block"

ScanMessages(outcome) ==
    <<Say("running_scan")>> \o
    CASE outcome = "ok"      -> <<Say("scan_completed")>>
      [] outcome = "nonzero" -> <<Say("scan_failed")>>
      [] outcome = "oserror" -> <<Traceback>>
      [] OTHER               -> <<>>

RunNucleiScan ==
    /\ pc = "run_nuclei_scan"
    /\ \E outcome \in ProcessOutcomes, timestamp \in Timestamps,
          written \in {Absent} \cup { File(c) : c \in ScanContents } :
          /\ output_file' = OutputFile(timestamp)
          /\ Start("scan", outcome)
          /\ Invoke("scan")
          /\ scanFile' = IF outcome = "ok" THEN written ELSE scanFile
          /\ Emit(ScanMessages(outcome))
          /\ Proceed(ScanDisposition(outcome), "read_scan")
    /\ UNCHANGED <<target, faultScript, mdFile, pdfFile, content, sentData,
                   report_md, saveCalls, writes>>

----------------------------------------------------------------------------
(* generate_report_from_file *)

\* try: with open(file_path, 'r') as f: content = f.read()
\* the text read, or str(e) of the exception
ReadResult(path, file) ==
    IF ~file.exists THEN [ok |-> FALSE, text |-> NoSuchFileText(path)]
    ELSE LET decoded == Decode(file.data, 1, <<>>) IN
         IF decoded.ok
           THEN [ok |-> TRUE, text |-> UniversalNewlines(decoded.text)]
           ELSE decoded

ReadScanFile ==
    /\ pc = "read_scan"
    /\ Emit(<<Say("sending")>>)
    /\ LET read == ReadResult(output_file, scanFile) IN
       IF read.ok
         THEN /\ Start("read", "ok")
              /\ content' = read.text
              /\ report_md' = report_md
              /\ pc' = "call_model"
         ELSE /\ Start("read", "failed")
              /\ content' = content
              /\ report_md' = ErrReadingFile(read.text)
              /\ pc' = "main_check"
    /\ UNCHANGED <<exitCode, target, faultScript, output_file, scanFile, mdFile, pdfFile, sentData,
                   calls, saveCalls, writes>>

\* the answer of the service to its n-th call
Scripted(n) == IF n <= Len(faultScript) THEN faultScript[n] ELSE "ok"

\* outcome of the try block: of generate_content, then of response.text.strip()
ModelOutcome(called, reply) ==
    IF called = "ok" /\ reply.kind # "text" THEN "reply_error" ELSE called

\* the value generate_report_from_file returns after the model call; called is
\* the outcome of generate_content
ModelReturn(called, reply) ==
    IF called # "ok" THEN ErrGemini(FaultText(called))
    ELSE IF reply.kind = "text" THEN Strip(reply.text)
    ELSE IF reply.kind = "raises" THEN ErrGemini(reply.text)
    ELSE ErrGemini(NoStripText)

\* the print after generate_content returned, before response.text is read
ModelMessages(called) ==
    IF called = "ok" THEN <<Say("analysis_complete")>> ELSE <<>>

CallModel ==
    /\ pc = "call_model"
    /\ \E hang \in BOOLEAN, reply \in Replies :
          LET called == IF hang THEN "hang" ELSE Scripted(calls["model"] + 1) IN
          /\ Start("model", ModelOutcome(called, reply))
          /\ Invoke("model")
          /\ sentData' = Append(sentData, content)
          /\ IF called = "hang"
               THEN report_md' = report_md /\ Emit(<<>>) /\ Block
               ELSE /\ report_md' = ModelReturn(called, reply)
                    /\ Emit(ModelMessages(called))
                    /\ Proceed("continue", "main_check")
    /\ UNCHANGED <<target, faultScript, output_file, scanFile, mdFile, pdfFile, content,
                   saveCalls, writes>>

----------------------------------------------------------------------------
(* __main__ after generate_report_from_file, and save_report_to_pdf *)

\* slip: only a text that starts with "Error" is taken for a failure
IsFatalPrefix(text) == StartsWith(text, ErrorWord)

\* if "Error" in report_md
IsFatal(text) == Contains(ErrorWord, text)

\* print(report_md), then the script ends
PrintError ==
    /\ pc = "main_check"
    /\ IsFatal(report_md)
    /\ Emit(<<[msg |-> "report", text |-> report_md]>>)
    /\ Exit(0)
    /\ UNCHANGED <<target, faultScript, output_file, scanFile, mdFile, pdfFile, content, sentData,
                   report_md, stages, result, calls, saveCalls, writes>>

\* open(md_path, "w") raises; it succeeds and f.write or the flush at the end of
\* the with block raises; or the text is written
WriteOutcomes == {"ok", "open_failed", "write_failed"}

\* the Markdown file after the with block: open(.., "w") truncates it, a write
\* that fails leaves the first kept characters of the text (none, or a part)
MdAfterWrite(outcome, md, text, kept) ==
    CASE outcome = "ok"           -> File(text)
      [] outcome = "write_failed" -> File(SubSeq(text, 1, kept))
      [] OTHER                    -> md

\* save_report_to_pdf up to the end of the with block
WriteMarkdown ==
    /\ pc = "main_check"
    /\ ~IsFatal(report_md)
    /\ saveCalls' = saveCalls + 1
    /\ \E outcome \in WriteOutcomes, kept \in 0..(Len(report_md) - 1) \cup {0} :
          /\ Start("write", IF outcome = "ok" THEN "ok" ELSE "failed")
          /\ mdFile' = MdAfterWrite(outcome, mdFile, report_md, kept)
          /\ writes' = [writes EXCEPT !["md"] = IF outcome = "ok" THEN @ + 1 ELSE @]
          /\ Emit(<<Say("saving_md")>> \o (IF outcome = "ok" THEN <<>> ELSE <<Traceback>>))
          /\ Proceed(IF outcome = "ok" THEN "continue" ELSE "crash", "pandoc")
    /\ UNCHANGED <<target, faultScript, output_file, scanFile, pdfFile, content, sentData,
                   report_md, calls>>

\* os.remove(md_path) after pandoc returned 0: it removes the file ("ok"), it
\* raises FileNotFoundError because the file is no longer there ("missing"), or
\* it raises another OSError and the file stays ("denied")
RemoveOutcomes == {"ok", "missing", "denied"}

\* try: pandoc; os.remove(md_path) except CalledProcessError
RenderDisposition(outcome, removal) ==
    CASE outcome = "ok" /\ removal = "ok" -> "exit0"
      [] outcome = "ok"                   -> "crash"    \* os.remove raises, uncaught
      [] outcome = "nonzero"              -> "exit0"    \* caught, printed, script ends
      [] outcome = "oserror"              -> "crash"
      [] OTHER                            -> "block"

\* slip: os.remove in a finally clause, the Markdown goes whatever pandoc did
MdRemovedAlways(outcome, removal, md) == IF removal = "denied" THEN md ELSE Absent

\* The Markdown file after the try block.  os.remove is reached only when pandoc
\* returned 0; a pandoc that fails leaves its input file in place.
MdAfterRender(outcome, removal, md) ==
    IF outcome = "ok" /\ removal # "denied" THEN Absent ELSE md

RenderMessages(outcome, removal) ==
    <<Say("converting")>> \o
    CASE outcome = "ok" /\ removal = "ok" -> <<Say("pdf_saved")>>
      [] outcome = "ok"                   -> <<Traceback>>
      [] outcome = "nonzero"              -> <<Say("pdf_failed")>>
      [] outcome = "oserror"              -> <<Traceback>>
      [] OTHER                            -> <<>>

ConvertToPdf ==
    /\ pc = "pandoc"
    /\ \E outcome \in ProcessOutcomes, removal \in RemoveOutcomes :
          /\ stages' = Append(stages, "render")
          /\ result' = [result EXCEPT
                          !["render"] = outcome,
                          !["remove"] = IF outcome # "ok" THEN "none"
                                        ELSE IF removal = "ok" THEN "ok" ELSE "failed"]
          /\ Invoke("pandoc")
          /\ pdfFile' = IF outcome = "ok" THEN File(mdFile.data) ELSE pdfFile
          /\ writes' = [writes EXCEPT !["pdf"] = IF outcome = "ok" THEN @ + 1 ELSE @]
          /\ mdFile' = MdAfterRender(outcome, removal, mdFile)
          /\ Emit(RenderMessages(outcome, removal))
          /\ Proceed(RenderDisposition(outcome, removal), "done")
    /\ UNCHANGED <<target, faultScript, output_file, scanFile, content, sentData, report_md,
                   saveCalls>>

----------------------------------------------------------------------------
(* The run *)

Init ==
    /\ pc = "verify_setup"
    /\ exitCode = -1
    /\ target \in Targets
    /\ faultScript \in FaultScripts
    /\ output_file = <<>>
    /\ scanFile = Absent
    /\ mdFile \in {Absent, File(StaleText)}
    /\ pdfFile \in {Absent, File(StaleText)}
    /\ content = <<>>
    /\ sentData = <<>>
    /\ report_md = <<>>
    /\ out = <<>>
    /\ stages = <<>>
    /\ result = [k \in StageSet \cup {"remove"} |-> "none"]
    /\ calls = [c \in Collaborators |-> 0]
    /\ saveCalls = 0
    /\ writes = [f \in {"md", "pdf"} |-> 0]

Next ==
    \/ VerifySetup
    \/ RunNucleiScan
    \/ ReadScanFile
    \/ CallModel
    \/ PrintError
    \/ WriteMarkdown
    \/ ConvertToPdf

Spec == Init /\ [][Next]_vars

\* the interpreter runs the script on: a step that can be taken is taken
FairSpec == Spec /\ WF_vars(Next)

----------------------------------------------------------------------------
(* Properties *)

Printed(tag) == \E i \in 1..Len(out) : out[i].msg = tag
NoReportWritten == writes["md"] = 0 /\ writes["pdf"] = 0

\* generate_report_from_file has returned / has returned one of its failure texts
Generated == result["read"] = "failed" \/ result["model"] \notin {"none", "hang"}
GenerationFailed ==
    \/ result["read"] = "failed"
    \/ result["model"] \in {"transient", "auth", "invalid", "reply_error"}

\* C1: when the version probe fails or the template directory is missing, the
\* process has exited with a non-zero status inside verify_setup: no other stage
\* was started, the scanner was not run on the target, the model was not called
\* and no report file was written.
SetupFailFast ==
    result["setup"] \in {"version_failed", "no_templates"} =>
        /\ pc = "done" /\ exitCode # 0
        /\ stages = <<"setup">>
        /\ calls["scan"] = 0 /\ calls["model"] = 0 /\ calls["pandoc"] = 0
        /\ saveCalls = 0 /\ NoReportWritten

SetupFailFastWitness ==
    /\ result["setup"] = "no_templates" /\ pc = "done" /\ exitCode = 1
    /\ Printed("templates_not_found")

\* C2 (as claimed): the exit status is 0 only when the target succeeded in scanning
\* and in synthesis, non-zero when either failed, and a setup failure ends with
\* another status than a scan failure.
ExitStatusDiscriminates ==
    pc = "done" =>
        /\ exitCode = 0 => (Succeeded("scan") /\ Succeeded("model"))
        /\ result["setup"] \in {"version_failed", "no_templates"} =>
              exitCode # ExitStatusOf(ScanDisposition("nonzero"))

\* C3: once the Markdown was written and pandoc failed, the process has ended with
\* the Markdown file holding the report and with the failure printed (the message
\* of the except clause or the interpreter's traceback); a written Markdown file
\* is gone only after pandoc returned success.
RendererFailureKeepsMarkdown ==
    /\ result["render"] \in {"nonzero", "oserror"} =>
          /\ pc = "done"
          /\ mdFile = File(report_md)
          /\ Printed("pdf_failed") \/ Printed("traceback")
    /\ (result["write"] = "ok" /\ ~mdFile.exists) => result["render"] = "ok"

RendererFailureWitness ==
    /\ result["render"] = "nonzero" /\ pc = "done"
    /\ mdFile = File(report_md) /\ Printed("pdf_failed")

\* C4 (as claimed): after a run in which scanning, synthesis and rendering all
\* succeeded, the Markdown file and the rendered document are both present.
BothArtifactsRetained ==
    (pc = "done" /\ Succeeded("scan") /\ Succeeded("model") /\ Succeeded("render")) =>
        mdFile.exists /\ pdfFile.exists

\* C5 (as claimed): a run that waits in an external call that never returns still
\* reaches a terminal state.
HungCallEventuallyEnds == [](pc = "blocked" => <>(pc = "done"))

\* the summary the claim expects for an empty scan; the source holds no such text
CannedNoFindings == <<"n","o"," ","f","i","n","d","i","n","g","s">>

\* C6 (as claimed): when the scan output read is empty the model is never called,
\* and the run ends with the canned "no findings" summary.
EmptyFindingsSkipModel ==
    (result["read"] = "ok" /\ content = <<>>) =>
        /\ calls["model"] = 0
        /\ pc = "done" => report_md = CannedNoFindings

\* C7 (as claimed): a service that fails transiently k <= 3 times and then succeeds
\* is called k + 1 times and a summary is produced; a non-transient failure ends
\* the synthesis after one call.
RetriesTransientFailures ==
    (pc = "done" /\ calls["model"] >= 1 /\ result["model"] # "reply_error") =>
        IF \A i \in 1..Len(faultScript) : faultScript[i] = "transient"
          THEN Len(faultScript) <= 3 =>
                 calls["model"] = Len(faultScript) + 1 /\ Succeeded("model")
          ELSE calls["model"] = 1 /\ ~Succeeded("model")

HasHttpScheme(t) ==
    \/ StartsWith(t, <<"h","t","t","p",":","/","/">>)
    \/ StartsWith(t, <<"h","t","t","p","s",":","/","/">>)

\* C8 (as claimed): the scanner is run only on a target with an http or https scheme.
ScanOnlyValidatedTargets == calls["scan"] > 0 => HasHttpScheme(target)

\* C9: save_report_to_pdf is called exactly when the returned text does not contain
\* "Error"; every failure of generate_report_from_file returns a text that
\* contains it; without the call no report file is written.
ErrorTextIsFatal ==
    /\ GenerationFailed => Contains(ErrorWord, report_md)
    /\ (Generated /\ pc # "main_check") =>
          (saveCalls = 1 <=> ~Contains(ErrorWord, report_md))
    /\ ~Generated => saveCalls = 0
    /\ saveCalls = 0 =>
          NoReportWritten /\ result["write"] = "none" /\ result["render"] = "none"

\* a successful reply that holds the word "Error" ends the run without a report
ErrorTextIsFatalWitness ==
    /\ pc = "done" /\ Succeeded("model") /\ Contains(ErrorWord, report_md)
    /\ saveCalls = 0 /\ NoReportWritten /\ Printed("report")

\* C10: the stages started are a prefix of setup, scan, read, model, write,
\* render (so each is started at most once, in that order, and never again after a
\* later one), each was started only after the one before it had succeeded, and
\* no collaborator is invoked more than once.
StagesInOrder ==
    /\ Len(stages) <= Len(StageOrder)
    /\ \A i \in 1..Len(stages) : stages[i] = StageOrder[i]
    /\ \A i \in 2..Len(stages) : Succeeded(stages[i - 1])
    /\ \A s \in StageSet : result[s] # "none" <=> \E i \in 1..Len(stages) : stages[i] = s
    /\ \A c \in Collaborators : calls[c] <= 1

StagesInOrderWitness ==
    /\ stages = StageOrder /\ pc = "done" /\ exitCode = 0
    /\ \A s \in StageSet : Succeeded(s)

====
